---- MODULE Spec2Model ----
(***************************************************************************)
(* Model of the NoteBook search subsystem: SearchService (searchService.js)*)
(* on top of NoteService / NoteRepository / LocalStorageDatabase.          *)
(*                                                                         *)
(* Text is a sequence of one-character strings.  A timestamp is the        *)
(* integer instant of the ISO string the store writes.  A missing          *)
(* category id is 0 and a missing category name is the empty text, both    *)
(* falsy in the source as well.                                            *)
(***************************************************************************)
EXTENDS Integers, Sequences, FiniteSets, TLC

\* ------------------------------------------------------------------ bounds
NumTasks == 2
MaxClock == 2

Tasks == 1..NumTasks

\* -------------------------------------------------------------------- text
UpperChars ==
  << "A","B","C","D","E","F","G","H","I","J","K","L","M",
     "N","O","P","Q","R","S","T","U","V","W","X","Y","Z" >>

LowerChars ==
  << "a","b","c","d","e","f","g","h","i","j","k","l","m",
     "n","o","p","q","r","s","t","u","v","w","x","y","z" >>

DigitChars == << "0","1","2","3","4","5","6","7","8","9" >>

Range(s) == { s[i] : i \in 1..Len(s) }

IsUpper(c) == c \in Range(UpperChars)

toLowerCaseChar(c) ==
  IF IsUpper(c)
    THEN LowerChars[CHOOSE i \in 1..Len(UpperChars) : UpperChars[i] = c]
    ELSE c

\* String.prototype.toLowerCase
toLowerCase(s) == [ i \in 1..Len(s) |-> toLowerCaseChar(s[i]) ]

\* the regular expression class \s
IsSpace(c) == c \in {" ", "\t", "\n"}

\* the regular expression class \w
IsWordChar(c) ==
  c \in Range(UpperChars) \cup Range(LowerChars) \cup Range(DigitChars) \cup {"_"}

\* String.prototype.includes
includes(s, sub) ==
  \E i \in 0..(Len(s) - Len(sub)) : SubSeq(s, i + 1, i + Len(sub)) = sub

RECURSIVE SplitFrom(_, _, _)
SplitFrom(s, i, cur) ==
  IF i > Len(s) THEN << cur >>
  ELSE IF IsSpace(s[i])
    THEN IF i > 1 /\ IsSpace(s[i - 1])
           THEN SplitFrom(s, i + 1, cur)
           ELSE << cur >> \o SplitFrom(s, i + 1, << >>)
    ELSE SplitFrom(s, i + 1, Append(cur, s[i]))

\* String.prototype.split(/\s+/)
split(s) == SplitFrom(s, 1, << >>)

\* String.prototype.trim
RECURSIVE trim(_)
trim(s) ==
  IF s = << >> THEN s
  ELSE IF IsSpace(Head(s)) THEN trim(Tail(s))
  ELSE IF IsSpace(s[Len(s)]) THEN trim(SubSeq(s, 1, Len(s) - 1))
  ELSE s

\* join(' ') of a sequence of texts
RECURSIVE join(_)
join(ss) ==
  IF ss = << >> THEN << >>
  ELSE IF Len(ss) = 1 THEN ss[1]
  ELSE ss[1] \o << " " >> \o join(Tail(ss))

\* Array.prototype.map over a sequence
Map(s, f(_)) == [ i \in 1..Len(s) |-> f(s[i]) ]

\* --------------------------------------------------------- markdownService
\* the header rule ^#{1,6}\s+ of extractPlainText on a one-line text
RECURSIVE DropHashes(_, _)
DropHashes(s, n) ==
  IF n < 6 /\ s # << >> /\ Head(s) = "#" THEN DropHashes(Tail(s), n + 1)
  ELSE s

RECURSIVE DropSpaces(_)
DropSpaces(s) ==
  IF s # << >> /\ IsSpace(Head(s)) THEN DropSpaces(Tail(s)) ELSE s

StripHeader(s) ==
  LET rest == DropHashes(s, 0)
  IN  IF rest # s /\ rest # << >> /\ IsSpace(Head(rest))
        THEN DropSpaces(rest)
        ELSE s

\* MarkdownService.extractPlainText, for one-line texts made of letters,
\* digits, spaces and '#': the other rewriting rules have nothing to match
extractPlainText(markdown) ==
  IF markdown = << >> THEN << >> ELSE trim(StripHeader(markdown))

\* ----------------------------------------------------- SearchService, pure
tagNames(note) == Map(note.tags, LAMBDA tag : tag.name)

\* extractSearchableContent without the plain text of the content
extractSearchableContentNoBody(note) ==
  toLowerCase(note.title \o << " " >> \o note.category_name
              \o << " " >> \o join(tagNames(note)))

extractSearchableContent(note) ==
  toLowerCase(note.title \o << " " >> \o extractPlainText(note.content)
              \o << " " >> \o note.category_name
              \o << " " >> \o join(tagNames(note)))

stripNonWord(term) == SelectSeq(term, IsWordChar)

\* generateSearchTerms with the non-word characters stripped before the
\* length filter
generateSearchTermsStripFirst(content) ==
  LET stripped == Map(split(content), stripNonWord)
  IN  SelectSeq(stripped, LAMBDA term : Len(term) > 2)

generateSearchTerms(content) ==
  LET long     == SelectSeq(split(content), LAMBDA term : Len(term) > 2)
      stripped == Map(long, stripNonWord)
  IN  SelectSeq(stripped, LAMBDA term : Len(term) > 0)

\* MakeEntry with the search terms generated from the raw content of the
\* note instead of its searchable content
MakeEntryTermsOfContent(note) ==
  [ id |-> note.id, title |-> note.title, content |-> note.content,
    updated_at |-> note.updated_at, category_id |-> note.category_id,
    category_name |-> note.category_name,
    is_favorite |-> note.is_favorite, is_archived |-> note.is_archived,
    tags |-> note.tags,
    searchableContent |-> extractSearchableContent(note),
    searchTerms |-> generateSearchTerms(toLowerCase(note.content)) ]

\* the object stored in the Map for a note
MakeEntry(note) ==
  LET searchableContent == extractSearchableContent(note)
  IN  [ id |-> note.id, title |-> note.title, content |-> note.content,
        updated_at |-> note.updated_at, category_id |-> note.category_id,
        category_name |-> note.category_name,
        is_favorite |-> note.is_favorite, is_archived |-> note.is_archived,
        tags |-> note.tags,
        searchableContent |-> searchableContent,
        searchTerms |-> generateSearchTerms(searchableContent) ]

\* ------------------------------------------------ Map, in insertion order
MapHas(m, id) == \E i \in 1..Len(m) : m[i].id = id

MapSet(m, e) ==
  IF MapHas(m, e.id)
    THEN [ i \in 1..Len(m) |-> IF m[i].id = e.id THEN e ELSE m[i] ]
    ELSE Append(m, e)

MapDelete(m, id) == SelectSeq(m, LAMBDA e : e.id # id)

MapIds(m) == { m[i].id : i \in 1..Len(m) }

\* ------------------------------------------------------- Array helpers
\* Array.prototype.sort with a comparator: Before(a, b) iff compare(a, b) < 0;
\* the sort is stable, elements that compare equal keep their order
StableSort(s, Before(_, _)) ==
  LET Precedes(j, i) ==
        \/ Before(s[j], s[i])
        \/ /\ ~Before(s[i], s[j])
           /\ j < i
      Pos(i) == Cardinality({ j \in 1..Len(s) : j # i /\ Precedes(j, i) }) + 1
  IN  [ p \in 1..Len(s) |-> s[CHOOSE i \in 1..Len(s) : Pos(i) = p] ]

\* Array.prototype.slice(0, limit)
slice(s, limit) ==
  IF limit >= 0
    THEN SubSeq(s, 1, IF limit < Len(s) THEN limit ELSE Len(s))
    ELSE SubSeq(s, 1, IF Len(s) + limit > 0 THEN Len(s) + limit ELSE 0)

\* String.prototype.localeCompare: characters are ranked space, '#', '_',
\* digits, letters; case decides only between otherwise equal texts, the
\* lower-case letter first
CollationChars == << " ", "#", "_" >> \o DigitChars \o LowerChars

CollationRank(c) ==
  LET l == toLowerCaseChar(c)
  IN  IF l \in Range(CollationChars)
        THEN CHOOSE i \in 1..Len(CollationChars) : CollationChars[i] = l
        ELSE 0

\* lexicographic order of two sequences of ranks
RECURSIVE LexLess(_, _)
LexLess(a, b) ==
  IF b = << >> THEN FALSE
  ELSE IF a = << >> THEN TRUE
  ELSE IF Head(a) # Head(b) THEN Head(a) < Head(b)
  ELSE LexLess(Tail(a), Tail(b))

CaseRank(c) == IF IsUpper(c) THEN 1 ELSE 0

\* a.localeCompare(b) < 0
localeCompareLess(a, b) ==
  \/ LexLess(Map(a, CollationRank), Map(b, CollationRank))
  \/ /\ ~LexLess(Map(b, CollationRank), Map(a, CollationRank))
     /\ LexLess(Map(a, CaseRank), Map(b, CaseRank))

\* ------------------------------------------------- SearchService, queries
\* new Date(x) of an unparseable x is an invalid date, here a negative number
IsInvalidDate(d) == d < 0

HasScore(r) == "score" \in DOMAIN r

\* calculateRelevanceScore with a repeated stored term counted once
calculateRelevanceScoreDistinct(note, queryTerms) ==
  LET title == toLowerCase(note.title)
      content == note.searchableContent
      fuzzyMatches(term) ==
        { searchTerm \in Range(note.searchTerms) :
            includes(searchTerm, term) \/ includes(term, searchTerm) }
      tagMatches(term) ==
        SelectSeq(note.tags, LAMBDA tag : includes(toLowerCase(tag.name), term))
      termScore(term) ==
          (IF includes(title, term) THEN 10 ELSE 0)
        + (IF includes(content, term) THEN 5 ELSE 0)
        + Cardinality(fuzzyMatches(term)) * 2
        + (IF note.category_name # << >> /\ includes(toLowerCase(note.category_name), term)
             THEN 3 ELSE 0)
        + Len(tagMatches(term)) * 3
      Sum[i \in 0..Len(queryTerms)] ==
        IF i = 0 THEN 0 ELSE Sum[i - 1] + termScore(queryTerms[i])
  IN  Sum[Len(queryTerms)]

\* calculateRelevanceScore normalised by the number of stored terms
calculateRelevanceScoreNormalized(note, queryTerms) ==
  (LET title == toLowerCase(note.title)
         content == note.searchableContent
         fuzzyMatches(term) ==
           SelectSeq(note.searchTerms,
                     LAMBDA searchTerm : includes(searchTerm, term) \/ includes(term, searchTerm))
         tagMatches(term) ==
           SelectSeq(note.tags, LAMBDA tag : includes(toLowerCase(tag.name), term))
         termScore(term) ==
             (IF includes(title, term) THEN 10 ELSE 0)
           + (IF includes(content, term) THEN 5 ELSE 0)
           + Len(fuzzyMatches(term)) * 2
           + (IF note.category_name # << >> /\ includes(toLowerCase(note.category_name), term)
                THEN 3 ELSE 0)
           + Len(tagMatches(term)) * 3
         Sum[i \in 0..Len(queryTerms)] ==
           IF i = 0 THEN 0 ELSE Sum[i - 1] + termScore(queryTerms[i])
     IN  (Sum[Len(queryTerms)] * 10) \div (Len(note.searchTerms) + 1))

calculateRelevanceScore(note, queryTerms) ==
  LET title == toLowerCase(note.title)
      content == note.searchableContent
      fuzzyMatches(term) ==
        SelectSeq(note.searchTerms,
                  LAMBDA searchTerm : includes(searchTerm, term) \/ includes(term, searchTerm))
      tagMatches(term) ==
        SelectSeq(note.tags, LAMBDA tag : includes(toLowerCase(tag.name), term))
      termScore(term) ==
          (IF includes(title, term) THEN 10 ELSE 0)
        + (IF includes(content, term) THEN 5 ELSE 0)
        + Len(fuzzyMatches(term)) * 2
        + (IF note.category_name # << >> /\ includes(toLowerCase(note.category_name), term)
             THEN 3 ELSE 0)
        + Len(tagMatches(term)) * 3
      Sum[i \in 0..Len(queryTerms)] ==
        IF i = 0 THEN 0 ELSE Sum[i - 1] + termScore(queryTerms[i])
  IN  Sum[Len(queryTerms)]

queryTermsOf(query) ==
  SelectSeq(split(toLowerCase(query)), LAMBDA term : Len(term) > 0)

filterByQuery(notes, query) ==
  LET queryTerms == queryTermsOf(query)
      scored == Map(notes, LAMBDA note :
                  ("score" :> calculateRelevanceScore(note, queryTerms)) @@ note)
      matching == SelectSeq(scored, LAMBDA note : note.score > 0)
  IN  StableSort(matching, LAMBDA a, b : b.score < a.score)

filterByDateRange(notes, dateRange) ==
  SelectSeq(notes, LAMBDA note :
    /\ ~IsInvalidDate(dateRange.start)
    /\ ~IsInvalidDate(dateRange.end)
    /\ note.updated_at >= dateRange.start
    /\ note.updated_at <= dateRange.end)

ByDateDesc(results) == StableSort(results, LAMBDA a, b : b.updated_at < a.updated_at)

\* sortResults with the date comparator reversed: oldest first
sortResultsDateAscending(results, sortBy, query) ==
  LET ByDateAsc(rs) == StableSort(rs, LAMBDA a, b : a.updated_at < b.updated_at)
  IN  CASE sortBy = "date"  -> ByDateAsc(results)
        [] sortBy = "title" ->
             StableSort(results, LAMBDA a, b : localeCompareLess(a.title, b.title))
        [] OTHER ->
             IF query # << >> /\ results # << >> /\ HasScore(results[1])
               THEN StableSort(results, LAMBDA a, b : b.score < a.score)
               ELSE ByDateAsc(results)

sortResults(results, sortBy, query) ==
  CASE sortBy = "date"  -> ByDateDesc(results)
    [] sortBy = "title" ->
         StableSort(results, LAMBDA a, b : localeCompareLess(a.title, b.title))
    [] OTHER ->
         IF query # << >> /\ results # << >> /\ HasScore(results[1])
           THEN StableSort(results, LAMBDA a, b : b.score < a.score)
           ELSE ByDateDesc(results)

\* the condition of the early return of search()
IsPassThrough(query, options) ==
  /\ query = << >>
  /\ options.categoryId = 0
  /\ Len(options.tags) = 0
  /\ ~options.isFavorite.set

\* the structured filters of search(), from the category filter on
structuredFilters(r1, options, withCategory) ==
  LET r2 == IF withCategory /\ options.categoryId # 0
              THEN SelectSeq(r1, LAMBDA note : note.category_id = options.categoryId)
              ELSE r1
      r3 == IF Len(options.tags) > 0
              THEN SelectSeq(r2, LAMBDA note :
                     \E i \in 1..Len(note.tags) : note.tags[i].id \in Range(options.tags))
              ELSE r2
      r4 == IF options.isFavorite.set
              THEN SelectSeq(r3, LAMBDA note : note.is_favorite = options.isFavorite.val)
              ELSE r3
  IN  IF options.dateRange.set
        THEN filterByDateRange(r4, options.dateRange)
        ELSE r4

\* searchInIndex with the limit applied to the index values, before the
\* filters and the sort
searchInIndexLimitFirst(index, query, options) ==
  LET r0 == slice(index, options.limit)
      r1 == IF query # << >> THEN filterByQuery(r0, query) ELSE r0
  IN  sortResults(structuredFilters(r1, options, TRUE), options.sortBy, query)

\* searchInIndex without the category filter
searchInIndexNoCategory(index, query, options) ==
  LET r1 == IF query # << >> THEN filterByQuery(index, query) ELSE index
  IN  slice(sortResults(structuredFilters(r1, options, FALSE), options.sortBy, query),
            options.limit)

\* search() from "let results = Array.from(this.searchIndex.values())" on
searchInIndex(index, query, options) ==
  LET r0 == index
      r1 == IF query # << >> THEN filterByQuery(r0, query) ELSE r0
      r2 == IF options.categoryId # 0
              THEN SelectSeq(r1, LAMBDA note : note.category_id = options.categoryId)
              ELSE r1
      r3 == IF Len(options.tags) > 0
              THEN SelectSeq(r2, LAMBDA note :
                     \E i \in 1..Len(note.tags) : note.tags[i].id \in Range(options.tags))
              ELSE r2
      r4 == IF options.isFavorite.set
              THEN SelectSeq(r3, LAMBDA note : note.is_favorite = options.isFavorite.val)
              ELSE r3
      r5 == IF options.dateRange.set
              THEN filterByDateRange(r4, options.dateRange)
              ELSE r4
  IN  slice(sortResults(r5, options.sortBy, query), options.limit)

\* a Set of texts in insertion order
RECURSIVE SetAddAll(_, _)
SetAddAll(set, items) ==
  IF items = << >> THEN set
  ELSE SetAddAll(IF Head(items) \in Range(set) THEN set ELSE Append(set, Head(items)),
                 Tail(items))

RECURSIVE Flatten(_)
Flatten(ss) == IF ss = << >> THEN << >> ELSE Head(ss) \o Flatten(Tail(ss))

\* suggestInIndex without the truncation to the limit
suggestInIndexUnlimited(index, query, limit) ==
  IF query = << >> \/ Len(query) < 2 THEN << >>
  ELSE
    LET queryLower == toLowerCase(query)
        titles == Map(SelectSeq(index, LAMBDA note :
                        includes(toLowerCase(note.title), queryLower)),
                      LAMBDA note : note.title)
        tags == SelectSeq(Flatten(Map(index, tagNames)),
                          LAMBDA name : includes(toLowerCase(name), queryLower))
        categories == Map(SelectSeq(index, LAMBDA note :
                            /\ note.category_name # << >>
                            /\ includes(toLowerCase(note.category_name), queryLower)),
                          LAMBDA note : note.category_name)
    IN  SetAddAll(SetAddAll(SetAddAll(<< >>, titles), tags), categories)

\* suggestInIndex with the category pass run first
suggestInIndexCategoriesFirst(index, query, limit) ==
  IF query = << >> \/ Len(query) < 2 THEN << >>
  ELSE
    LET queryLower == toLowerCase(query)
        titles == Map(SelectSeq(index, LAMBDA note :
                        includes(toLowerCase(note.title), queryLower)),
                      LAMBDA note : note.title)
        tags == SelectSeq(Flatten(Map(index, tagNames)),
                          LAMBDA name : includes(toLowerCase(name), queryLower))
        categories == Map(SelectSeq(index, LAMBDA note :
                            /\ note.category_name # << >>
                            /\ includes(toLowerCase(note.category_name), queryLower)),
                          LAMBDA note : note.category_name)
    IN  slice(SetAddAll(SetAddAll(SetAddAll(<< >>, categories), titles), tags), limit)

\* getSearchSuggestions() after the await
suggestInIndex(index, query, limit) ==
  IF query = << >> \/ Len(query) < 2 THEN << >>
  ELSE
    LET queryLower == toLowerCase(query)
        titles == Map(SelectSeq(index, LAMBDA note :
                        includes(toLowerCase(note.title), queryLower)),
                      LAMBDA note : note.title)
        tags == SelectSeq(Flatten(Map(index, tagNames)),
                          LAMBDA name : includes(toLowerCase(name), queryLower))
        categories == Map(SelectSeq(index, LAMBDA note :
                            /\ note.category_name # << >>
                            /\ includes(toLowerCase(note.category_name), queryLower)),
                          LAMBDA note : note.category_name)
    IN  slice(SetAddAll(SetAddAll(SetAddAll(<< >>, titles), tags), categories), limit)

getSearchStats(index) ==
  LET Sum[i \in 0..Len(index)] ==
        IF i = 0 THEN 0 ELSE Sum[i - 1] + Len(index[i].searchTerms)
  IN  [ totalNotes |-> Len(index), totalTerms |-> Sum[Len(index)] ]

\* ------------------------------------------------------------------ state
VARIABLES
  notes,          \* localStorage notebook_notes, the array of stored notes
  noteIdCounter,  \* localStorage notebook_note_id_counter
  clock,          \* the instant new Date() returns
  searchIndex,    \* SearchService.searchIndex, entries in insertion order
  initialized,    \* SearchService.initialized
  op,             \* per task: the public operation in progress
  pc,             \* per task: the await it is suspended at
  built,          \* per task: outcome of the build it ran ("none" if it ran none)
  snap,           \* per task: the corpus its getAllNotes() resolved with
  ret,            \* the outcome of the call that returned in the last step
  upsertedIds,    \* history: ids upserted, with no remove, store change or failed build since
  removedIds,     \* history: ids removed after their deletion and not upserted since
  seenAtCall,     \* history, per task: upsertedIds when its search() was called
  tracking        \* which history is recorded in this behaviour

vars == << notes, noteIdCounter, clock, searchIndex, initialized,
           op, pc, built, snap, ret, upsertedIds, removedIds, seenAtCall,
           tracking >>

storeVars == << notes, noteIdCounter, clock >>
taskVars == << op, pc, built, snap, seenAtCall >>
histVars == << upsertedIds, removedIds, tracking >>

\* ------------------------------------------------------------------ inputs
General == << "G","e","n","e","r","a","l" >>
Untitled == << "U","n","t","i","t","l","e","d" >>

\* the default category LocalStorageDatabase.initialize() stores
Categories == << [ id |-> 1, name |-> General ] >>

\* the noteData of createNote()
CreateInputs ==
  { [ title |-> << "G","o" >>, content |-> << "#"," ","g","o" >>,
      category_id |-> 1, is_favorite |-> FALSE ] }

\* the noteData of updateNote()
UpdateInputs ==
  { [ title |-> << >>, content |-> << "r","u","s","t"," ","g","o" >>,
      category_id |-> 0, is_favorite |-> TRUE ] }

DefaultLimit == 50

NoFavorite == [ set |-> FALSE, val |-> FALSE ]
NoDateRange == [ set |-> FALSE, start |-> 0, end |-> 0 ]

DefaultOptions ==
  [ categoryId |-> 0, tags |-> << >>, isFavorite |-> NoFavorite,
    dateRange |-> NoDateRange, sortBy |-> "relevance", limit |-> DefaultLimit ]

\* the (query, options) of search()
SearchInputs ==
  { [ query |-> << >>,
      options |-> [ DefaultOptions EXCEPT !.sortBy = "title", !.limit = 1 ] ],
    [ query |-> << >>,
      options |-> [ DefaultOptions EXCEPT
                      !.dateRange = [ set |-> TRUE, start |-> 2, end |-> 2 ] ] ],
    [ query |-> << "g","o" >>, options |-> DefaultOptions ],
    [ query |-> << >>,
      options |-> [ DefaultOptions EXCEPT
                      !.isFavorite = [ set |-> TRUE, val |-> TRUE ],
                      !.sortBy = "date" ] ] }

NoInput == [ query |-> << >>, options |-> DefaultOptions ]

\* the (query, limit) of getSearchSuggestions()
SuggestInputs == { [ query |-> << "g","o" >>, limit |-> 5 ] }

NoRet == [ op |-> "none", built |-> "none", kind |-> "void",
           input |-> NoInput, value |-> << >> ]

\* ------------------------------------------- LocalStorageDatabase, NoteService
categoryNameOf(category_id) ==
  IF \E i \in 1..Len(Categories) : Categories[i].id = category_id
    THEN Categories[CHOOSE i \in 1..Len(Categories) : Categories[i].id = category_id].name
    ELSE << >>

\* the stored note with its category name and its tags; findTagsByNote
\* returns no tag
withCategoryAndTags(note) ==
  [ id |-> note.id, title |-> note.title, content |-> note.content,
    updated_at |-> note.updated_at, category_id |-> note.category_id,
    category_name |-> categoryNameOf(note.category_id),
    is_favorite |-> note.is_favorite, is_archived |-> note.is_archived,
    tags |-> << >> ]

findAllNotes(stored) ==
  ByDateDesc(Map(SelectSeq(stored, LAMBDA note : ~note.is_archived),
                 withCategoryAndTags))

\* NoteService.getAllNotes
getAllNotes(stored) == findAllNotes(stored)

StoredIds(stored) == { stored[i].id : i \in 1..Len(stored) }

\* NoteService.getNoteWithTags, for an id that is stored
getNoteWithTags(stored, id) ==
  withCategoryAndTags(stored[CHOOSE i \in 1..Len(stored) : stored[i].id = id])

CorpusIds == { n.id : n \in Range(getAllNotes(notes)) }

\* ------------------------------------------------------------------- Init
InitProgram ==
  /\ notes = << >>
  /\ noteIdCounter = 1
  /\ clock = 0
  /\ searchIndex = << >>
  /\ initialized = FALSE
  /\ op = [ t \in Tasks |-> "none" ]
  /\ pc = [ t \in Tasks |-> "idle" ]
  /\ built = [ t \in Tasks |-> "none" ]
  /\ snap = [ t \in Tasks |-> << >> ]
  /\ ret = NoRet
  /\ upsertedIds = {}
  /\ removedIds = {}
  /\ seenAtCall = [ t \in Tasks |-> {} ]

Init == InitProgram /\ tracking = "off"

InitUpserts == InitProgram /\ tracking = "upserts"

InitRemoves == InitProgram /\ tracking = "removes"

\* upsertedIds records the upserts that reached the index (flag set), as
\* long as no fetch has failed
InitApplied == InitProgram /\ tracking = "applied"

\* a history variable follows the calls only when it is tracked
Forget(id) ==
  /\ upsertedIds' = upsertedIds \ {id}
  /\ UNCHANGED << removedIds, tracking >>

\* ------------------------------------------------- NoteService mutations
\* NoteService.createNote -> LocalStorageDatabase.createNote
createNote(noteData) ==
  /\ clock < MaxClock
  /\ clock' = clock + 1
  /\ noteIdCounter' = noteIdCounter + 1
  /\ notes' = << [ id |-> noteIdCounter,
                   title |-> IF noteData.title = << >> THEN Untitled ELSE noteData.title,
                   content |-> noteData.content,
                   updated_at |-> clock',
                   category_id |-> noteData.category_id,
                   is_favorite |-> noteData.is_favorite,
                   is_archived |-> FALSE ] >> \o notes
  /\ ret' = NoRet
  /\ UNCHANGED << searchIndex, initialized, taskVars, histVars >>

\* NoteService.updateNote -> LocalStorageDatabase.updateNote
updateNote(id, noteData) ==
  /\ clock < MaxClock
  /\ id \in StoredIds(notes)
  /\ clock' = clock + 1
  /\ notes' = [ i \in 1..Len(notes) |->
                  IF notes[i].id = id
                    THEN [ notes[i] EXCEPT !.title = noteData.title,
                                           !.content = noteData.content,
                                           !.category_id = noteData.category_id,
                                           !.is_favorite = noteData.is_favorite,
                                           !.updated_at = clock' ]
                    ELSE notes[i] ]
  /\ Forget(id)
  /\ ret' = NoRet
  /\ UNCHANGED << noteIdCounter, searchIndex, initialized, taskVars >>

\* NoteService.deleteNote -> LocalStorageDatabase.deleteNote
deleteNote(id) ==
  /\ id \in StoredIds(notes)
  /\ notes' = SelectSeq(notes, LAMBDA n : n.id # id)
  /\ Forget(id)
  /\ ret' = NoRet
  /\ UNCHANGED << noteIdCounter, clock, searchIndex, initialized, taskVars >>

\* ------------------------------------------------ SearchService, actions
Ret(o, b, kind, input, value) ==
  [ op |-> o, built |-> b, kind |-> kind, input |-> input, value |-> value ]

\* the task returns to its caller
Finish(t) ==
  /\ op' = [ op EXCEPT ![t] = "none" ]
  /\ pc' = [ pc EXCEPT ![t] = "idle" ]
  /\ built' = [ built EXCEPT ![t] = "none" ]
  /\ snap' = [ snap EXCEPT ![t] = << >> ]
  /\ seenAtCall' = [ seenAtCall EXCEPT ![t] = {} ]

\* initialize() up to its first await: with the flag set it has nothing to
\* do, otherwise buildSearchIndex() runs up to "await getAllNotes()"
EnterInitialize(t, o) ==
  /\ pc[t] = "idle"
  /\ op' = [ op EXCEPT ![t] = o ]
  /\ pc' = [ pc EXCEPT ![t] = IF initialized THEN "resume" ELSE "fetch" ]
  /\ seenAtCall' = [ seenAtCall EXCEPT ![t] =
                       IF o = "search" THEN upsertedIds ELSE {} ]
  /\ UNCHANGED << built, snap >>

\* initialize() without the test of the flag: every call runs a build
initializeAlwaysBuilds(t) ==
  /\ pc[t] = "idle"
  /\ ret' = NoRet
  /\ op' = [ op EXCEPT ![t] = "initialize" ]
  /\ pc' = [ pc EXCEPT ![t] = "fetch" ]
  /\ UNCHANGED << built, snap, seenAtCall >>
  /\ UNCHANGED << searchIndex, initialized, storeVars, histVars >>

\* a call of initialize(); with the flag set it returns at once
initialize(t) ==
  /\ pc[t] = "idle"
  /\ IF initialized
       THEN /\ ret' = Ret("initialize", "none", "void", NoInput, << >>)
            /\ UNCHANGED taskVars
       ELSE /\ ret' = NoRet
            /\ EnterInitialize(t, "initialize")
  /\ UNCHANGED << searchIndex, initialized, storeVars, histVars >>

\* a call of search(query, options), up to "await this.initialize()"
search(t) ==
  /\ EnterInitialize(t, "search")
  /\ ret' = NoRet
  /\ UNCHANGED << searchIndex, initialized, storeVars, histVars >>

\* a call of getSearchSuggestions(query, limit), up to "await this.initialize()"
getSearchSuggestions(t) ==
  /\ EnterInitialize(t, "suggest")
  /\ ret' = NoRet
  /\ UNCHANGED << searchIndex, initialized, storeVars, histVars >>

\* rebuildIndex without "this.initialized = false": over a ready index
\* initialize() has nothing to do and the call returns at once
rebuildIndexKeepsFlag(t) ==
  /\ pc[t] = "idle"
  /\ IF initialized
       THEN /\ ret' = Ret("rebuild", "none", "void", NoInput, << >>)
            /\ UNCHANGED taskVars
       ELSE /\ ret' = NoRet
            /\ EnterInitialize(t, "rebuild")
  /\ UNCHANGED << searchIndex, initialized, storeVars, histVars >>

\* a call of rebuildIndex(): clears the flag, then initialize()
rebuildIndex(t) ==
  /\ pc[t] = "idle"
  /\ initialized' = FALSE
  /\ op' = [ op EXCEPT ![t] = "rebuild" ]
  /\ pc' = [ pc EXCEPT ![t] = "fetch" ]
  /\ UNCHANGED << built, snap, seenAtCall >>
  /\ ret' = NoRet
  /\ UNCHANGED << searchIndex, storeVars, histVars >>

\* BuildFetch with "this.searchIndex.clear()" moved before the await, so that
\* a rejected fetch leaves the index empty
BuildFetchClearsFirst(t, ok) ==
  /\ pc[t] = "fetch"
  /\ IF ok
       THEN /\ snap' = [ snap EXCEPT ![t] = getAllNotes(notes) ]
            /\ built' = [ built EXCEPT ![t] = "ok" ]
            /\ pc' = [ pc EXCEPT ![t] = "fill" ]
       ELSE /\ snap' = snap
            /\ built' = [ built EXCEPT ![t] = "failed" ]
            /\ pc' = [ pc EXCEPT ![t] = "flag" ]
  /\ searchIndex' = << >>
  /\ ret' = NoRet
  /\ UNCHANGED << op, seenAtCall >>
  /\ UNCHANGED << initialized, storeVars, removedIds >>
  /\ upsertedIds' = IF ok THEN upsertedIds ELSE {}
  /\ tracking' = IF tracking = "applied" /\ ~ok THEN "off" ELSE tracking

\* buildSearchIndex(): getAllNotes() settles.  A rejection is caught and
\* logged, and buildSearchIndex() returns normally
BuildFetch(t, ok) ==
  /\ pc[t] = "fetch"
  /\ IF ok
       THEN /\ snap' = [ snap EXCEPT ![t] = getAllNotes(notes) ]
            /\ built' = [ built EXCEPT ![t] = "ok" ]
            /\ pc' = [ pc EXCEPT ![t] = "fill" ]
       ELSE /\ snap' = snap
            /\ built' = [ built EXCEPT ![t] = "failed" ]
            /\ pc' = [ pc EXCEPT ![t] = "flag" ]
  /\ UNCHANGED << op, seenAtCall >>
  /\ ret' = NoRet
  /\ UNCHANGED << searchIndex, initialized, storeVars, removedIds >>
  /\ upsertedIds' = IF ok THEN upsertedIds ELSE {}
  /\ tracking' = IF tracking = "applied" /\ ~ok THEN "off" ELSE tracking

\* notes.forEach(note => this.searchIndex.set(note.id, {...}))
RECURSIVE SetAll(_, _)
SetAll(index, ns) ==
  IF ns = << >> THEN index
  ELSE SetAll(MapSet(index, MakeEntry(Head(ns))), Tail(ns))

\* BuiltIndex without "this.searchIndex.clear()"
BuiltIndexNoClear(index, ns) == SetAll(index, ns)

\* the index after "this.searchIndex.clear(); notes.forEach(...)"
BuiltIndex(index, ns) == SetAll(<< >>, ns)

\* BuildFill with a suspension between "this.searchIndex.clear()" and the
\* refill
BuildFillSuspendsAfterClear(t) ==
  /\ pc[t] \in {"fill", "cleared"}
  /\ IF pc[t] = "fill"
       THEN /\ searchIndex' = << >>
            /\ pc' = [ pc EXCEPT ![t] = "cleared" ]
       ELSE /\ searchIndex' = SetAll(searchIndex, snap[t])
            /\ pc' = [ pc EXCEPT ![t] = "flag" ]
  /\ UNCHANGED << op, built, snap, seenAtCall >>
  /\ ret' = NoRet
  /\ UNCHANGED << initialized, storeVars, histVars >>

\* buildSearchIndex() after the await: clear and refill, without suspending
BuildFill(t) ==
  /\ pc[t] = "fill"
  /\ searchIndex' = BuiltIndex(searchIndex, snap[t])
  /\ pc' = [ pc EXCEPT ![t] = "flag" ]
  /\ UNCHANGED << op, built, snap, seenAtCall >>
  /\ ret' = NoRet
  /\ UNCHANGED << initialized, storeVars, histVars >>

\* the flag initialize() holds after "await this.buildSearchIndex()"
FlagAfterBuild(b) == TRUE

\* SetInitialized made to wait until no other caller has a build in flight
SetInitializedWaitsForOthers(t) ==
  /\ pc[t] = "flag"
  /\ \A u \in Tasks \ {t} : pc[u] \notin {"fetch", "fill", "flag"}
  /\ initialized' = FlagAfterBuild(built[t])
  /\ IF op[t] \in {"initialize", "rebuild"}
       THEN /\ ret' = Ret(op[t], built[t], "void", NoInput, << >>)
            /\ Finish(t)
       ELSE /\ pc' = [ pc EXCEPT ![t] = "resume" ]
            /\ snap' = [ snap EXCEPT ![t] = << >> ]
            /\ ret' = NoRet
            /\ UNCHANGED << op, built, seenAtCall >>
  /\ UNCHANGED << searchIndex, storeVars, removedIds, tracking >>
  /\ upsertedIds' = IF built[t] = "failed" THEN {} ELSE upsertedIds

\* initialize() after "await this.buildSearchIndex()"; initialize() and
\* rebuildIndex() return here, the queries go on
SetInitialized(t) ==
  /\ pc[t] = "flag"
  /\ initialized' = FlagAfterBuild(built[t])
  /\ IF op[t] \in {"initialize", "rebuild"}
       THEN /\ ret' = Ret(op[t], built[t], "void", NoInput, << >>)
            /\ Finish(t)
       ELSE /\ pc' = [ pc EXCEPT ![t] = "resume" ]
            /\ snap' = [ snap EXCEPT ![t] = << >> ]
            /\ ret' = NoRet
            /\ UNCHANGED << op, built, seenAtCall >>
  /\ UNCHANGED << searchIndex, storeVars, removedIds, tracking >>
  /\ upsertedIds' = IF built[t] = "failed" THEN {} ELSE upsertedIds

\* the value search() computes on the index path
SearchValue(index, input) == searchInIndex(index, input.query, input.options)

\* SearchEval with the score written into the entries of the index instead
\* of into copies of them
SearchEvalScoresInPlace(t, input) ==
  /\ pc[t] = "resume"
  /\ op[t] = "search"
  /\ IF IsPassThrough(input.query, input.options)
       THEN /\ pc' = [ pc EXCEPT ![t] = "pass" ]
            /\ ret' = NoRet
            /\ searchIndex' = searchIndex
            /\ UNCHANGED << op, built, snap, seenAtCall >>
       ELSE /\ ret' = Ret("search", built[t], "value", input,
                          SearchValue(searchIndex, input))
            /\ searchIndex' =
                 IF input.query = << >> THEN searchIndex
                 ELSE Map(searchIndex, LAMBDA note :
                        ("score" :> calculateRelevanceScore(note, queryTermsOf(input.query)))
                          @@ note)
            /\ Finish(t)
  /\ UNCHANGED << initialized, storeVars, histVars >>

\* search() after "await this.initialize()": either the early return, which
\* awaits getAllNotes(), or the filters over the index
SearchEval(t, input) ==
  /\ pc[t] = "resume"
  /\ op[t] = "search"
  /\ IF IsPassThrough(input.query, input.options)
       THEN /\ pc' = [ pc EXCEPT ![t] = "pass" ]
            /\ ret' = NoRet
            /\ UNCHANGED << op, built, snap, seenAtCall >>
       ELSE /\ ret' = Ret("search", built[t], "value", input,
                          SearchValue(searchIndex, input))
            /\ Finish(t)
  /\ UNCHANGED << searchIndex, initialized, storeVars, histVars >>

\* PassThroughValue with the result limit applied
PassThroughLimited(stored, input) == slice(getAllNotes(stored), input.options.limit)

\* the value of the early return
PassThroughValue(stored, input) == getAllNotes(stored)

\* "return await noteService.getAllNotes()" settles; a rejection is thrown
\* to the caller of search()
SearchPassThrough(t, input, ok) ==
  /\ pc[t] = "pass"
  /\ IsPassThrough(input.query, input.options)
  /\ ret' = IF ok
              THEN Ret("search", built[t], "value", input,
                       PassThroughValue(notes, input))
              ELSE Ret("search", built[t], "error", input, << >>)
  /\ Finish(t)
  /\ UNCHANGED << searchIndex, initialized, storeVars, histVars >>

\* getSearchSuggestions() after "await this.initialize()"
SuggestEval(t, input) ==
  /\ pc[t] = "resume"
  /\ op[t] = "suggest"
  /\ ret' = Ret("suggest", built[t], "value", input,
                suggestInIndex(searchIndex, input.query, input.limit))
  /\ Finish(t)
  /\ UNCHANGED << searchIndex, initialized, storeVars, histVars >>

\* updateNoteInIndex(note), called with a note of the corpus; it has no await
updateNoteInIndex(id) ==
  /\ id \in CorpusIds
  /\ searchIndex' = IF initialized
                      THEN MapSet(searchIndex, MakeEntry(getNoteWithTags(notes, id)))
                      ELSE searchIndex
  /\ upsertedIds' = IF tracking = "upserts" \/ (tracking = "applied" /\ initialized)
                       THEN upsertedIds \cup {id}
                       ELSE upsertedIds
  /\ removedIds' = removedIds \ {id}
  /\ UNCHANGED tracking
  /\ ret' = NoRet
  /\ UNCHANGED << initialized, storeVars, taskVars >>

\* removeNoteFromIndex(noteId)
removeNoteFromIndex(id) ==
  /\ id \in 1..(noteIdCounter - 1)
  /\ searchIndex' = MapDelete(searchIndex, id)
  /\ upsertedIds' = upsertedIds \ {id}
  /\ removedIds' = IF tracking = "removes" /\ id \notin StoredIds(notes)
                     THEN removedIds \cup {id}
                     ELSE removedIds
  /\ UNCHANGED tracking
  /\ ret' = NoRet
  /\ UNCHANGED << initialized, storeVars, taskVars >>

\* ------------------------------------------------------------------- Next
NoteIds == 1..MaxClock

Next ==
  \/ \E noteData \in CreateInputs : createNote(noteData)
  \/ \E id \in NoteIds, noteData \in UpdateInputs : updateNote(id, noteData)
  \/ \E id \in NoteIds : deleteNote(id)
  \/ \E t \in Tasks : initialize(t)
  \/ \E t \in Tasks : search(t)
  \/ \E t \in Tasks : getSearchSuggestions(t)
  \/ \E t \in Tasks : rebuildIndex(t)
  \/ \E t \in Tasks, ok \in BOOLEAN : BuildFetch(t, ok)
  \/ \E t \in Tasks : BuildFill(t)
  \/ \E t \in Tasks : SetInitialized(t)
  \/ \E t \in Tasks, input \in SearchInputs : SearchEval(t, input)
  \/ \E t \in Tasks, input \in SearchInputs, ok \in BOOLEAN : SearchPassThrough(t, input, ok)
  \/ \E t \in Tasks, input \in SuggestInputs : SuggestEval(t, input)
  \/ \E id \in NoteIds : updateNoteInIndex(id)
  \/ \E id \in NoteIds : removeNoteFromIndex(id)

Spec == Init /\ [][Next]_vars

\* every corpus fetch settles, and a continuation whose promise has settled
\* runs: the steps of a call in progress are taken
Fairness ==
  \A t \in Tasks :
    /\ WF_vars(\E ok \in BOOLEAN : BuildFetch(t, ok))
    /\ WF_vars(BuildFill(t))
    /\ WF_vars(SetInitialized(t))
    /\ WF_vars(\E input \in SearchInputs : SearchEval(t, input))
    /\ WF_vars(\E input \in SearchInputs, ok \in BOOLEAN : SearchPassThrough(t, input, ok))
    /\ WF_vars(\E input \in SuggestInputs : SuggestEval(t, input))

\* the calls of the service and their continuations, over the store as it is
\* at start-up
NextLive ==
  \/ \E t \in Tasks : initialize(t)
  \/ \E t \in Tasks : search(t)
  \/ \E t \in Tasks : getSearchSuggestions(t)
  \/ \E t \in Tasks : rebuildIndex(t)
  \/ \E t \in Tasks, ok \in BOOLEAN : BuildFetch(t, ok)
  \/ \E t \in Tasks : BuildFill(t)
  \/ \E t \in Tasks : SetInitialized(t)
  \/ \E t \in Tasks, input \in SearchInputs : SearchEval(t, input)
  \/ \E t \in Tasks, input \in SearchInputs, ok \in BOOLEAN : SearchPassThrough(t, input, ok)
  \/ \E t \in Tasks, input \in SuggestInputs : SuggestEval(t, input)

SpecLive == Init /\ [][NextLive]_vars /\ Fairness

\* the same program, with the history of upserts recorded
SpecUpserts == InitUpserts /\ [][Next]_vars

\* the same program, with the history of removes recorded
SpecRemoves == InitRemoves /\ [][Next]_vars

\* the same program, with the history of the upserts applied to the index
SpecApplied == InitApplied /\ [][Next]_vars

\* -------------------------------------------------- the query specification
\* The second specification starts from a service that is ready over a stored
\* corpus of two notes and exercises the queries: the callers upsert notes of
\* their own (with tags, a category, an empty title, one more occurrence of a
\* word), remove entries, rebuild, and search with the options below.
GoRoutines == << "G","o"," ","R","o","u","t","i","n","e","s" >>
ConcurrencyPatterns == << "c","o","n","c","u","r","r","e","n","c","y"," ","p","a","t","t","e","r","n","s" >>
ConcurrencyTwice == << "c","o","n","c","u","r","r","e","n","c","y"," ","p","a","t","t","e","r","n","s"," ","c","o","n","c","u","r","r","e","n","c","y" >>
RustOwnership == << "R","u","s","t"," ","O","w","n","e","r","s","h","i","p" >>
MemorySafety == << "m","e","m","o","r","y"," ","s","a","f","e","t","y" >>
Systems == << "s","y","s","t","e","m","s" >>
RustGo == << "r","u","s","t"," ","g","o" >>
Concurrency == << "c","o","n","c","u","r","r","e","n","c","y" >>
RustGoRust == << "r","u","s","t"," ","g","o"," ","r","u","s","t" >>
GoSys == << "G","o"," "," ","S","Y","S" >>
Go == << "g","o" >>
CPlusPlus == << "c","+","+" >>
Hashes == << "#","#","#" >>
St == << "s","t" >>
UpperEr == << "E","R" >>
Sys == << "s","y","s" >>
LetterS == << "s" >>

\* the notes of the store: note 2 was created after note 1 (createNote
\* unshifts), a third note was created and deleted again
StoredNote1 ==
  [ id |-> 1, title |-> GoRoutines, content |-> ConcurrencyPatterns,
    updated_at |-> 1, category_id |-> 0, is_favorite |-> FALSE,
    is_archived |-> FALSE ]

StoredNote2 ==
  [ id |-> 2, title |-> RustOwnership, content |-> MemorySafety,
    updated_at |-> 2, category_id |-> 0, is_favorite |-> TRUE,
    is_archived |-> FALSE ]

StoredCorpus == << StoredNote2, StoredNote1 >>

\* the notes a caller hands to updateNoteInIndex(note)
NoteA == withCategoryAndTags(StoredNote1)

NoteA2 == [ NoteA EXCEPT !.content = ConcurrencyTwice ]

NoteB == [ withCategoryAndTags(StoredNote2) EXCEPT
             !.tags = << [ id |-> 9, name |-> Systems ] >> ]

NoteC ==
  [ id |-> 3, title |-> << >>, content |-> RustGo, updated_at |-> 2,
    category_id |-> 1, category_name |-> General, is_favorite |-> FALSE,
    is_archived |-> FALSE, tags |-> << >> ]

NoteC2 == [ NoteC EXCEPT !.content = RustGoRust ]

\* a note titled like its category, with the tag of NoteB and two tags made
\* of non-word characters
NoteD ==
  [ id |-> 3, title |-> General, content |-> Go, updated_at |-> 3,
    category_id |-> 1, category_name |-> General, is_favorite |-> FALSE,
    is_archived |-> FALSE,
    tags |-> << [ id |-> 9, name |-> Systems ], [ id |-> 10, name |-> CPlusPlus ],
                [ id |-> 11, name |-> Hashes ] >> ]

QueryNotes == { NoteA, NoteA2, NoteB, NoteC, NoteC2, NoteD }

QueryIds == { note.id : note \in QueryNotes }

NotFavorite == [ set |-> TRUE, val |-> FALSE ]

\* the (query, options) of search() in the query specification
QueryInputs ==
  { [ query |-> Concurrency, options |-> DefaultOptions ],
    [ query |-> RustGo, options |-> [ DefaultOptions EXCEPT !.sortBy = "date" ] ],
    [ query |-> GoSys, options |-> DefaultOptions ],
    [ query |-> << >>,
      options |-> [ DefaultOptions EXCEPT !.isFavorite = NotFavorite,
                                          !.sortBy = "title" ] ],
    [ query |-> << >>,
      options |-> [ DefaultOptions EXCEPT !.isFavorite = NotFavorite ] ],
    [ query |-> << >>,
      options |-> [ DefaultOptions EXCEPT !.isFavorite = NotFavorite,
                                          !.limit = 1 ] ],
    [ query |-> Go, options |-> [ DefaultOptions EXCEPT !.categoryId = 1 ] ],
    [ query |-> << >>, options |-> [ DefaultOptions EXCEPT !.categoryId = 1 ] ],
    [ query |-> Go, options |-> [ DefaultOptions EXCEPT !.limit = -1 ] ],
    [ query |-> << >>,
      options |-> [ DefaultOptions EXCEPT
                      !.isFavorite = NotFavorite,
                      !.dateRange = [ set |-> TRUE, start |-> -1, end |-> 2 ] ] ],
    [ query |-> << >>,
      options |-> [ DefaultOptions EXCEPT
                      !.isFavorite = NotFavorite,
                      !.dateRange = [ set |-> TRUE, start |-> 2, end |-> 2 ] ] ],
    [ query |-> << >>,
      options |-> [ DefaultOptions EXCEPT
                      !.dateRange = [ set |-> TRUE, start |-> 2, end |-> 3 ] ] ],
    [ query |-> << >>, options |-> DefaultOptions ] }

\* the (query, limit) of getSearchSuggestions() in the query specification
QuerySuggestInputs ==
  { [ query |-> St, limit |-> 1 ],
    [ query |-> St, limit |-> 0 ],
    [ query |-> UpperEr, limit |-> 5 ],
    [ query |-> Sys, limit |-> 5 ],
    [ query |-> LetterS, limit |-> 5 ] }

\* the service after initialize() over the stored corpus
InitQuery ==
  /\ notes = StoredCorpus
  /\ noteIdCounter = 4
  /\ clock = 3
  /\ searchIndex = BuiltIndex(<< >>, getAllNotes(StoredCorpus))
  /\ initialized = TRUE
  /\ op = [ t \in Tasks |-> "none" ]
  /\ pc = [ t \in Tasks |-> "idle" ]
  /\ built = [ t \in Tasks |-> "none" ]
  /\ snap = [ t \in Tasks |-> << >> ]
  /\ ret = NoRet
  /\ upsertedIds = {}
  /\ removedIds = {}
  /\ seenAtCall = [ t \in Tasks |-> {} ]
  /\ tracking = "off"

\* updateNoteInIndex(note) with any note object of the caller; the call and
\* the entry derived from its note are recorded in ret
updateNoteInIndexOf(note) ==
  /\ searchIndex' = IF initialized
                      THEN MapSet(searchIndex, MakeEntry(note))
                      ELSE searchIndex
  /\ ret' = Ret("upsert", "none", "void", NoInput, << MakeEntry(note) >>)
  /\ UNCHANGED << initialized, storeVars, taskVars, histVars >>

\* the one caller of the query specification: its calls do not overlap
QueryTasks == { 1 }

NextQuery ==
  \/ \E note \in QueryNotes : updateNoteInIndexOf(note)
  \/ \E id \in QueryIds : removeNoteFromIndex(id)
  \/ \E t \in QueryTasks : search(t)
  \/ \E t \in QueryTasks : rebuildIndex(t)
  \/ \E t \in QueryTasks, ok \in BOOLEAN : BuildFetch(t, ok)
  \/ \E t \in QueryTasks : BuildFill(t)
  \/ \E t \in QueryTasks : SetInitialized(t)
  \/ \E t \in QueryTasks, input \in QueryInputs : SearchEval(t, input)
  \/ \E t \in QueryTasks, input \in QueryInputs, ok \in BOOLEAN :
       SearchPassThrough(t, input, ok)
  \/ \E t \in QueryTasks : getSearchSuggestions(t)
  \/ \E t \in QueryTasks, input \in QuerySuggestInputs : SuggestEval(t, input)

SpecQuery == InitQuery /\ [][NextQuery]_vars

\* ----------------------------------------------------------------- claims
InitOps == {"initialize", "search", "suggest"}

\* the task runs a build of its own that has not completed
OwnBuildInFlight(t) == pc[t] \in {"fetch", "fill"}

\* some step of task t
Steps(t) == pc'[t] # pc[t] \/ op'[t] # op[t]

CorpusEntries == { MakeEntry(n) : n \in Range(getAllNotes(notes)) }

\* the index holds an entry for exactly the notes of the corpus, each derived
\* from the note's current fields
IndexMirrorsCorpus ==
  /\ Range(searchIndex) = CorpusEntries
  /\ Len(searchIndex) = Cardinality(CorpusIds)

InRange(note, dateRange) ==
  note.updated_at >= dateRange.start /\ note.updated_at <= dateRange.end

\* C1: callers that invoke initialize() (directly or through search/suggest)
\* before the first build has completed share one in-flight build: at no time
\* do two of them each have a build, hence a corpus fetch, of their own
C1_BuildOnce ==
  Cardinality({ t \in Tasks : op[t] \in InitOps /\ OwnBuildInFlight(t) }) <= 1

\* C2: when the fetch of its build has failed, the completion of initialize()
\* does not mark the index initialized
C2_NoReadinessAfterFailedBuild ==
  [][ \A t \in Tasks :
        (pc[t] = "flag" /\ built[t] = "failed" /\ Steps(t))
          => (initialized' => initialized) ]_vars

\* C3: an initialize(), search() or suggest() whose build met a failed fetch
\* fails with the error instead of returning normally
C3_FetchErrorPropagates ==
  (ret.op \in InitOps /\ ret.built = "failed") => ret.kind = "error"

\* C4: a rebuild whose fetch fails leaves the entries of the index as they
\* were: no step of a rebuildIndex() call other than the refill after a
\* successful fetch changes the index, and a failed fetch never reaches the
\* refill
C4_FailedRebuildKeepsIndex ==
  /\ [][ \A t \in Tasks :
           ((op[t] = "rebuild" \/ op'[t] = "rebuild") /\ Steps(t) /\ pc[t] # "fill")
             => searchIndex' = searchIndex ]_vars
  /\ [](\A t \in Tasks : built[t] = "failed" => pc[t] # "fill")

\* a rebuildIndex() over a non-empty index has returned after a failed fetch,
\* and the index still holds its entries although the corpus is now empty
C4_Witness ==
  /\ ret.op = "rebuild"
  /\ ret.built = "failed"
  /\ searchIndex # << >>
  /\ notes = << >>

\* C5: once the index is ready and mirrors the corpus, it still mirrors the
\* corpus after a create, update or delete of the Note Service
C5_MutationsMirrored ==
  [][ ( /\ initialized
        /\ \A t \in Tasks : pc[t] = "idle"
        /\ IndexMirrorsCorpus
        /\ notes' # notes )
        => IndexMirrorsCorpus' ]_vars

\* C6: an id removed from the index after the deletion of its note has no
\* entry in the index, as long as it is not upserted again
C6_NoStaleEntryAfterRemove ==
  \A id \in removedIds : ~MapHas(searchIndex, id)

\* C7: a search that evaluates over the index finds in it the entry of every
\* note whose upsert completed before the search was called (and that was
\* neither removed nor changed in the store since)
C7_UpsertVisible ==
  [][ \A t \in Tasks :
        (op[t] = "search" /\ pc[t] = "resume" /\ pc'[t] = "idle"
           /\ built[t] # "failed")
          => \A id \in seenAtCall[t] \cap upsertedIds :
               MakeEntry(getNoteWithTags(notes, id)) \in Range(searchIndex) ]_vars

\* C8: after the refill of a successful build over a corpus of N notes, the
\* index holds exactly one entry per note of that corpus, in corpus order,
\* and no other entry, and the statistics count N entries
C8_CorpusFidelity ==
  [][ \A t \in Tasks :
        (pc[t] = "fill" /\ pc'[t] = "flag")
          => /\ searchIndex' = Map(snap[t], MakeEntry)
             /\ getSearchStats(searchIndex').totalNotes = Len(snap[t]) ]_vars

\* a build over a corpus of two notes has just refilled the index
C8_Witness ==
  \E t \in Tasks :
    /\ pc[t] = "flag"
    /\ built[t] = "ok"
    /\ Len(snap[t]) = 2
    /\ getSearchStats(searchIndex).totalNotes = 2

OnlyDateRange(input) ==
  /\ input.query = << >>
  /\ input.options.categoryId = 0
  /\ Len(input.options.tags) = 0
  /\ ~input.options.isFavorite.set
  /\ input.options.dateRange.set

\* C9: a search with an empty query and only a date range returns only notes
\* whose updated timestamp lies in the range
C9_DateRangeOnlyIsFiltered ==
  (ret.op = "search" /\ ret.kind = "value" /\ OnlyDateRange(ret.input))
    => \A i \in 1..Len(ret.value) : InRange(ret.value[i], ret.input.options.dateRange)

NoFilterAtAll(input) ==
  /\ input.query = << >>
  /\ input.options.categoryId = 0
  /\ Len(input.options.tags) = 0
  /\ ~input.options.isFavorite.set
  /\ ~input.options.dateRange.set

\* C10: a search with an empty query and no structured filter returns the
\* sequence of getAllNotes(), whatever the sort mode and the limit
C10_NoFilterPassThrough ==
  (ret.op = "search" /\ ret.kind = "value" /\ NoFilterAtAll(ret.input))
    => ret.value = getAllNotes(notes)

\* a search with no filter, sort mode title and limit 1 has returned a corpus
\* of two notes
C10_Witness ==
  /\ ret.op = "search"
  /\ ret.kind = "value"
  /\ NoFilterAtAll(ret.input)
  /\ ret.input.options.sortBy = "title"
  /\ ret.input.options.limit = 1
  /\ Len(ret.value) = 2

\* ------------------------------------------- claims of the query engine
\* a search has returned a value computed over the index
SearchReturned == ret.op = "search" /\ ret.kind = "value"

\* the position of the entry of an id in the index (0 if it has none)
IndexPos(id) ==
  IF MapHas(searchIndex, id)
    THEN CHOOSE j \in 1..Len(searchIndex) : searchIndex[j].id = id
    ELSE 0

\* a text query and nothing else, with a limit that cuts nothing
TextOnly(input) ==
  /\ input.query # << >>
  /\ input.options.categoryId = 0
  /\ Len(input.options.tags) = 0
  /\ ~input.options.isFavorite.set
  /\ ~input.options.dateRange.set
  /\ input.options.limit >= Len(searchIndex)

\* the weight of one query term for one entry, as the claim words it
ClaimedTermScore(e, term) ==
    (IF includes(toLowerCase(e.title), term) THEN 10 ELSE 0)
  + (IF includes(e.searchableContent, term) THEN 5 ELSE 0)
  + 2 * Cardinality({ k \in 1..Len(e.searchTerms) :
                        \/ includes(e.searchTerms[k], term)
                        \/ includes(term, e.searchTerms[k]) })
  + (IF includes(toLowerCase(e.category_name), term) /\ e.category_name # << >>
       THEN 3 ELSE 0)
  + 3 * Cardinality({ k \in 1..Len(e.tags) :
                        includes(toLowerCase(e.tags[k].name), term) })

\* the sum over the whitespace-separated terms of the lower-cased query: a
\* term starts where a non-space follows a space or the start, and runs to
\* the next space or the end
ClaimedScore(e, query) ==
  LET q == toLowerCase(query)
      StartsTerm(i) == ~IsSpace(q[i]) /\ (i = 1 \/ IsSpace(q[i - 1]))
      EndOf(i) == CHOOSE j \in i..Len(q) :
                    /\ \A k \in i..j : ~IsSpace(q[k])
                    /\ (j = Len(q) \/ IsSpace(q[j + 1]))
      Sum[i \in 0..Len(q)] ==
        IF i = 0 THEN 0
        ELSE Sum[i - 1]
             + (IF StartsTerm(i)
                  THEN ClaimedTermScore(e, SubSeq(q, i, EndOf(i)))
                  ELSE 0)
  IN  Sum[Len(q)]

\* C11: a text search returns exactly the entries of the index whose score,
\* the sum over the lower-cased query terms of 10 (title), 5 (searchable
\* content), 2 per stored term matching either way, 3 (category name) and 3
\* per matching tag, is greater than 0, each annotated with that score
C11_RelevanceScore ==
  (SearchReturned /\ TextOnly(ret.input)) =>
    /\ \A i \in 1..Len(ret.value) :
         /\ MapHas(searchIndex, ret.value[i].id)
         /\ ret.value[i].score
              = ClaimedScore(searchIndex[IndexPos(ret.value[i].id)], ret.input.query)
         /\ ret.value[i].score > 0
         /\ [ f \in DOMAIN searchIndex[1] |-> ret.value[i][f] ]
              = searchIndex[IndexPos(ret.value[i].id)]
    /\ { ret.value[i].id : i \in 1..Len(ret.value) }
         = { e.id : e \in { x \in Range(searchIndex) :
                              ClaimedScore(x, ret.input.query) > 0 } }
    /\ Len(ret.value) = Cardinality({ ret.value[i].id : i \in 1..Len(ret.value) })

\* a search for "concurrency" has returned the entry that stores the term
\* twice, scored 5 for the content and 2 for each of the two stored terms
C11_Witness ==
  /\ SearchReturned
  /\ TextOnly(ret.input)
  /\ ret.input.query = Concurrency
  /\ Len(ret.value) = 1
  /\ ret.value[1].content = ConcurrencyTwice
  /\ ret.value[1].score = 9

\* the index holds the two notes of the scenario and nothing else
ScenarioIndex ==
  /\ Len(searchIndex) = 2
  /\ Range(searchIndex) = { MakeEntry(NoteA), MakeEntry(NoteB) }

ScenarioSearch ==
  /\ SearchReturned
  /\ ret.input = [ query |-> Concurrency, options |-> DefaultOptions ]
  /\ ScenarioIndex

\* C12 as stated: on the scenario corpus, search("concurrency", {}) returns
\* exactly note 1, with score 5
C12_ScenarioScoreFive ==
  ScenarioSearch =>
    /\ Len(ret.value) = 1
    /\ ret.value[1].id = 1
    /\ ret.value[1].score = 5

\* C12 as amended: on the scenario corpus, search("concurrency", {}) returns
\* exactly note 1, with score 7: 5 for the searchable content and 2 for the
\* stored search term "concurrency"
C12_ScenarioScoreSeven ==
  ScenarioSearch =>
    /\ Len(ret.value) = 1
    /\ ret.value[1].id = 1
    /\ ret.value[1].score = 7

\* search("concurrency", {}) has returned one result over the scenario index
C12_Witness == ScenarioSearch /\ Len(ret.value) = 1

\* a search has returned a value computed by the filters over the index
IndexedSearchReturned ==
  SearchReturned /\ ~IsPassThrough(ret.input.query, ret.input.options)

\* a date range with an unparseable bound, or a negative limit
Malformed(options) ==
  \/ /\ options.dateRange.set
     /\ IsInvalidDate(options.dateRange.start) \/ IsInvalidDate(options.dateRange.end)
  \/ options.limit < 0

\* C13: a search whose options are malformed (a date range with an
\* unparseable bound, a negative limit) fails with an error and returns no
\* list of results
C13_MalformedOptionsRejected ==
  (ret.op = "search" /\ Malformed(ret.input.options)) => ret.kind = "error"

\* the sort key of the two results is equal in the sort mode of the search
SameKey(a, b, input) ==
  CASE input.options.sortBy = "date"  -> a.updated_at = b.updated_at
    [] input.options.sortBy = "title" -> a.title = b.title
    [] OTHER -> IF input.query # << >>
                  THEN a.score = b.score
                  ELSE a.updated_at = b.updated_at

\* C14: in every sort mode, with or without a text query, two results with
\* equal sort key appear in the insertion order of their entries in the index
C14_TiesKeepInsertionOrder ==
  IndexedSearchReturned =>
    \A i, j \in 1..Len(ret.value) :
      (i < j /\ SameKey(ret.value[i], ret.value[j], ret.input))
        => IndexPos(ret.value[i].id) < IndexPos(ret.value[j].id)

\* result a may stand before result b in the sort mode of the search
InOrder(a, b, input) ==
  CASE input.options.sortBy = "date"  -> a.updated_at >= b.updated_at
    [] input.options.sortBy = "title" ->
         /\ ~localeCompareLess(b.title, a.title)
         /\ b.title = << >> => a.title = << >>
    [] OTHER -> IF input.query # << >>
                  THEN a.score >= b.score
                  ELSE a.updated_at >= b.updated_at

\* C15: the result of an indexed search is ordered by updated timestamp
\* descending in mode date, by title ascending with the empty title first in
\* mode title, and in mode relevance by score descending when a text query
\* was supplied, by updated timestamp descending otherwise
C15_SortOrder ==
  IndexedSearchReturned =>
    \A i, j \in 1..Len(ret.value) :
      i < j => InOrder(ret.value[i], ret.value[j], ret.input)

\* results that the index holds in another order have been returned: two
\* dates under a text query in mode date, or the empty title before another
\* in mode title, or two dates in mode relevance without a query
C15_Witness ==
  /\ IndexedSearchReturned
  /\ Len(ret.value) >= 2
  /\ IndexPos(ret.value[1].id) > IndexPos(ret.value[Len(ret.value)].id)
  /\ \/ /\ ret.input.options.sortBy = "title"
        /\ ret.value[1].title = << >>
        /\ ret.value[2].title # << >>
     \/ /\ ret.input.options.sortBy = "date"
        /\ ret.value[1].updated_at > ret.value[Len(ret.value)].updated_at
     \/ /\ ret.input.options.sortBy = "relevance"
        /\ ret.input.query = << >>
        /\ ret.value[1].updated_at > ret.value[2].updated_at

\* the matches of the search, filtered and sorted, before the limit
FullList(index, input) ==
  SearchValue(index, [ input EXCEPT !.options.limit = Len(index) ])

Min(a, b) == IF a < b THEN a ELSE b

\* C16: the result of an indexed search with limit k is the first min(k, n)
\* elements of the filtered and sorted list of its n matches
C16_LimitAppliedLast ==
  (IndexedSearchReturned /\ ret.input.options.limit >= 0) =>
    LET full == FullList(searchIndex, ret.input)
    IN  ret.value = SubSeq(full, 1, Min(ret.input.options.limit, Len(full)))

\* a search with limit 1 has returned the first of two matches, which is not
\* the first of them in the index
C16_Witness ==
  /\ IndexedSearchReturned
  /\ ret.input.options.limit = 1
  /\ Len(ret.value) = 1
  /\ Len(FullList(searchIndex, ret.input)) = 2
  /\ IndexPos(ret.value[1].id) > IndexPos(FullList(searchIndex, ret.input)[2].id)

\* C17: every note returned by a search with a category identifier has that
\* category identifier
C17_CategoryFilterExact ==
  (SearchReturned /\ ret.input.options.categoryId # 0) =>
    \A i \in 1..Len(ret.value) :
      ret.value[i].category_id = ret.input.options.categoryId

\* a text search with a category has returned a note of that category while
\* the index holds a match of the query in another category
C17_Witness ==
  /\ SearchReturned
  /\ ret.input.options.categoryId = 1
  /\ ret.input.query = Go
  /\ Len(ret.value) = 1
  /\ \E e \in Range(searchIndex) :
       e.category_id # 1 /\ ClaimedScore(e, ret.input.query) > 0

\* the queries of the searches
QueryTexts == { input.query : input \in QueryInputs } \ { << >> }

\* the score of an entry for a query
ScoreFor(e, query) == calculateRelevanceScore(e, queryTermsOf(query))

\* entry new is entry old with one more occurrence of the term appended to
\* its content, and the term matched old already
OneMoreOccurrence(old, new, term) ==
  /\ new.id = old.id
  /\ new.content = old.content \o << " " >> \o term
  /\ new.title = old.title
  /\ new.category_name = old.category_name
  /\ new.tags = old.tags
  /\ includes(old.searchableContent, term)

\* the upsert recorded in ret' has replaced the entry of the same id
Reindexed(old, new) ==
  /\ ret'.op = "upsert"
  /\ initialized
  /\ new = ret'.value[1]
  /\ old \in Range(searchIndex)
  /\ new \in Range(searchIndex')

C19_UpsertSemantics ==
  [][ ret'.op = "upsert" =>
        LET e == ret'.value[1]
        IN  /\ e \in Range(searchIndex')
            /\ { x \in Range(searchIndex') : x.id # e.id }
                 = { x \in Range(searchIndex) : x.id # e.id }
            /\ Cardinality(MapIds(searchIndex')) = Len(searchIndex') ]_vars

\* a fresh index built from a corpus
FreshIndex(corpus) == BuiltIndex(<< >>, corpus)

\* C20: a rebuild always runs a build; the refill of a successful one leaves
\* the index with the entries and the statistics of a fresh index built from
\* the snapshot it fetched, without any entry, upserted or not, of a note
\* that is not in the snapshot; and its return leaves the index as it is
C20_RebuildEquivalence ==
  /\ [](ret.op = "rebuild" => ret.built # "none")
  /\ [][ \A t \in Tasks :
           (op[t] = "rebuild" /\ pc[t] = "fill" /\ pc'[t] = "flag")
             => /\ searchIndex' = FreshIndex(snap[t])
                /\ getSearchStats(searchIndex') = getSearchStats(FreshIndex(snap[t]))
                /\ MapIds(searchIndex') = { n.id : n \in Range(snap[t]) } ]_vars
  /\ [][ \A t \in Tasks :
           (op[t] = "rebuild" /\ pc[t] = "flag" /\ pc'[t] = "idle")
             => searchIndex' = searchIndex ]_vars

\* a rebuild has returned after a successful build: the index is the fresh
\* index of the stored corpus, without an entry for the upserted note 3
C20_Witness ==
  /\ ret.op = "rebuild"
  /\ ret.built = "ok"
  /\ searchIndex = FreshIndex(getAllNotes(notes))
  /\ ~MapHas(searchIndex, 3)
  /\ getSearchStats(searchIndex).totalNotes = 2

\* ------------------------------------------- claims of the index lifecycle
\* C21: while the flag set by a completed initialize() stands (no rebuild
\* since), a call of initialize() starts no build, hence no corpus fetch, and
\* returns leaving the entries of the index and their order as they are,
\* whatever the corpus holds by then
C21_IdempotentInitialize ==
  [][ initialized =>
        /\ \A t \in Tasks : ~(op[t] # "initialize" /\ op'[t] = "initialize")
        /\ (ret'.op = "initialize" /\ ret'.built = "none")
             => (searchIndex' = searchIndex /\ pc' = pc) ]_vars

\* a second initialize() has returned without a build over an index that no
\* longer mirrors the corpus
C21_Witness ==
  /\ ret.op = "initialize"
  /\ ret.built = "none"
  /\ initialized
  /\ searchIndex # << >>
  /\ ~IndexMirrorsCorpus

\* ------------------------------------- claims of the suggestion engine
\* a call of getSearchSuggestions() has returned its value
SuggestReturned == ret.op = "suggest" /\ ret.kind = "value"

\* s contains q, case ignored
ContainsIgnoringCase(s, q) == includes(toLowerCase(s), toLowerCase(q))

TitlesOfIndex == { e.title : e \in Range(searchIndex) }

TagNamesOfIndex ==
  UNION { { e.tags[k].name : k \in 1..Len(e.tags) } : e \in Range(searchIndex) }

CategoryNamesOfIndex == { e.category_name : e \in Range(searchIndex) } \ { << >> }

\* C22: for a query of at least 2 characters and a limit k >= 0, the
\* suggestions are at most k strings, each the title, a tag name or the
\* category name of an entry of the index and containing the query, case
\* ignored; for a shorter query they are the empty sequence
C22_SuggestionBound ==
  SuggestReturned =>
    IF Len(ret.input.query) < 2
      THEN ret.value = << >>
      ELSE /\ ret.input.limit >= 0 => Len(ret.value) <= ret.input.limit
           /\ \A i \in 1..Len(ret.value) :
                /\ ContainsIgnoringCase(ret.value[i], ret.input.query)
                /\ ret.value[i] \in TitlesOfIndex \cup TagNamesOfIndex
                                      \cup CategoryNamesOfIndex

\* suggest("st", 1) has returned the one title although a tag name of the
\* index contains the query as well
C22_Witness ==
  /\ SuggestReturned
  /\ ret.input = [ query |-> St, limit |-> 1 ]
  /\ ret.value = << RustOwnership >>
  /\ Systems \in TagNamesOfIndex

TitleMatches(q) == { s \in TitlesOfIndex : ContainsIgnoringCase(s, q) }

TagMatches(q) == { s \in TagNamesOfIndex : ContainsIgnoringCase(s, q) }

CategoryMatches(q) == { s \in CategoryNamesOfIndex : ContainsIgnoringCase(s, q) }

\* the pass that contributes a string: 1 title, 2 tag name, 3 category name
PassOf(s, q) ==
  IF s \in TitleMatches(q) THEN 1 ELSE IF s \in TagMatches(q) THEN 2 ELSE 3

\* the position in the index of the first entry with the title
FirstTitlePos(s) ==
  CHOOSE j \in 1..Len(searchIndex) :
    /\ searchIndex[j].title = s
    /\ \A k \in 1..(j - 1) : searchIndex[k].title # s

\* a may stand before b among the suggestions
MayPrecede(a, b, q) ==
  /\ PassOf(a, q) <= PassOf(b, q)
  /\ (PassOf(a, q) = 1 /\ PassOf(b, q) = 1) => FirstTitlePos(a) < FirstTitlePos(b)

\* C23: the suggestions hold no string twice, the matching titles in index
\* order before the strings only a tag name contributes, those before the
\* strings only a category name contributes, and the limit keeps the front:
\* the result has min(k, all) strings and no omitted string may precede a
\* returned one; suggest("sys", 5) on the scenario corpus is ["systems"]
C23_SuggestionPriority ==
  (SuggestReturned /\ Len(ret.input.query) >= 2 /\ ret.input.limit >= 0) =>
    LET q == ret.input.query
        v == ret.value
        all == TitleMatches(q) \cup TagMatches(q) \cup CategoryMatches(q)
    IN  /\ Cardinality(Range(v)) = Len(v)
        /\ Range(v) \subseteq all
        /\ Len(v) = Min(ret.input.limit, Cardinality(all))
        /\ \A i, j \in 1..Len(v) : i < j => MayPrecede(v[i], v[j], q)
        /\ \A s \in all \ Range(v) : \A i \in 1..Len(v) : MayPrecede(v[i], s, q)
        /\ (ScenarioIndex /\ ret.input = [ query |-> Sys, limit |-> 5 ])
             => v = << Systems >>

\* suggest("ER", 5) has returned a title, then the string "General" once,
\* which a title and the category name of entries of the index both give
C23_Witness ==
  /\ SuggestReturned
  /\ ret.input = [ query |-> UpperEr, limit |-> 5 ]
  /\ ret.value = << RustOwnership, General >>
  /\ General \in TitlesOfIndex
  /\ General \in CategoryNamesOfIndex

\* ---------------------------------------------- claims of the date range
\* the notes a returned search drew its result from
SearchSource ==
  IF IsPassThrough(ret.input.query, ret.input.options)
    THEN getAllNotes(notes)
    ELSE searchIndex

\* the note passes the filters of the search other than the date range
PassesOtherFilters(note, input) ==
  /\ input.query = << >>
  /\ input.options.categoryId = 0
  /\ Len(input.options.tags) = 0
  /\ input.options.isFavorite.set => note.is_favorite = input.options.isFavorite.val

\* C24: a search with a date range [start, end] returns no note whose updated
\* timestamp is before start or after end, and returns every note that passes
\* its other filters and whose timestamp equals start or end
C24_DateRangeInclusive ==
  (SearchReturned /\ ret.input.options.dateRange.set
     /\ ~Malformed(ret.input.options)) =>
    LET dateRange == ret.input.options.dateRange
    IN  /\ \A i \in 1..Len(ret.value) : InRange(ret.value[i], dateRange)
        /\ \A note \in Range(SearchSource) :
             ( /\ PassesOtherFilters(note, ret.input)
               /\ note.updated_at \in { dateRange.start, dateRange.end } )
               => \E i \in 1..Len(ret.value) : ret.value[i].id = note.id

\* ------------------------------------------- claims of the index entries
\* the tokens of a searchable string as the claim words them: for every
\* maximal run of non-space characters of raw length above 2, in order, the
\* run without its non-word characters, unless nothing is left of it
ClaimedTokens(content) ==
  LET EndsRun(i) == ~IsSpace(content[i])
                      /\ (i = Len(content) \/ IsSpace(content[i + 1]))
      StartOf(i) == CHOOSE j \in 1..i :
                      /\ \A k \in j..i : ~IsSpace(content[k])
                      /\ (j = 1 \/ IsSpace(content[j - 1]))
      Stripped(i) == SelectSeq(SubSeq(content, StartOf(i), i), IsWordChar)
      Tokens[i \in 0..Len(content)] ==
        IF i = 0 THEN << >>
        ELSE IF EndsRun(i) /\ i - StartOf(i) + 1 > 2 /\ Stripped(i) # << >>
               THEN Append(Tokens[i - 1], Stripped(i))
               ELSE Tokens[i - 1]
  IN  Tokens[Len(content)]

\* C25: the search terms of every entry are the whitespace-separated tokens
\* of its searchable content of raw length above 2, stripped of their
\* non-word characters, those left empty dropped, in order and with
\* repetitions; every stored term is non-empty and made of word characters
C25_Tokenizer ==
  \A e \in Range(searchIndex) :
    /\ e.searchTerms = ClaimedTokens(e.searchableContent)
    /\ \A k \in 1..Len(e.searchTerms) :
         /\ e.searchTerms[k] # << >>
         /\ \A c \in Range(e.searchTerms[k]) : IsWordChar(c)

\* the index holds the entry of the note tagged "c++" and "###": "go" is
\* dropped for its length, "general" is stored twice, "c++" as "c", and
\* nothing of "###"
C25_Witness ==
  \E e \in Range(searchIndex) :
    /\ e.tags # << >>
    /\ e.tags[Len(e.tags)].name = Hashes
    /\ e.searchTerms = << toLowerCase(General), toLowerCase(General), Systems, << "c" >> >>

QueryOps == { "search", "suggest" }

\* C26: no step of a search() or getSearchSuggestions() on a ready index
\* changes the entries of the index or their order, and no entry of the
\* index ever carries a score
C26_QueriesDoNotMutate ==
  /\ [][ \A t \in Tasks :
           ((op[t] \in QueryOps \/ op'[t] \in QueryOps) /\ Steps(t) /\ initialized)
             => searchIndex' = searchIndex ]_vars
  /\ [](\A e \in Range(searchIndex) : ~HasScore(e))

\* a text search over a ready index has returned three scored results in an
\* order that is not the order of the index
C26_Witness ==
  /\ SearchReturned
  /\ initialized
  /\ ret.input.query # << >>
  /\ Len(ret.value) = 3
  /\ HasScore(ret.value[1])
  /\ ret.value[1].id # searchIndex[1].id

\* C29: every entry of the index is the only one of its note identifier, and
\* its searchableContent and searchTerms are the values derived from its own
\* title, content, category name and tag names
C29_DerivedFields ==
  /\ Cardinality(MapIds(searchIndex)) = Len(searchIndex)
  /\ \A e \in Range(searchIndex) :
       /\ e.searchableContent = extractSearchableContent(e)
       /\ e.searchTerms = generateSearchTerms(extractSearchableContent(e))

\* after upserts and removes the index holds three entries: an upserted note
\* first, and the entry of a note whose content was replaced
C29_Witness ==
  /\ Len(searchIndex) = 3
  /\ searchIndex[1].id = 3
  /\ \E e \in Range(searchIndex) : e.content = ConcurrencyTwice

\* ------------------------------------------------ claims of concurrency
\* C27: in every interleaving, a step of a call of initialize(), rebuild(),
\* search() or suggest() either leaves the index as it is or replaces it, in
\* that one step, by the complete set of entries of the snapshot its build
\* fetched: no state shows an index cleared and not yet refilled
C27_AtomicBuild ==
  [][ \A t \in Tasks :
        Steps(t) =>
          \/ searchIndex' = searchIndex
          \/ /\ pc[t] = "fill"
             /\ built[t] = "ok"
             /\ searchIndex' = Map(snap[t], MakeEntry) ]_vars

\* a build has just swapped in the entries of its snapshot while another
\* build, holding another snapshot, is suspended before its own swap
C27_Witness ==
  \E t, u \in Tasks :
    /\ t # u
    /\ pc[t] = "flag"
    /\ built[t] = "ok"
    /\ snap[t] # << >>
    /\ searchIndex = Map(snap[t], MakeEntry)
    /\ pc[u] = "fill"
    /\ snap[u] # snap[t]

\* C28: the swap of a build does not replace or delete the entry of a note
\* whose upsert was applied to the index (flag set) and that was neither
\* removed nor changed in the store since: a build that holds an older
\* snapshot does not undo the upsert
C28_AppliedUpsertKept ==
  [][ \A t \in Tasks :
        (pc[t] = "fill" /\ pc'[t] = "flag")
          => \A id \in upsertedIds :
               MakeEntry(getNoteWithTags(notes, id)) \in Range(searchIndex') ]_vars

\* C30: provided every corpus fetch settles, every call of initialize(),
\* search(), suggest() and rebuild() in progress eventually returns, with a
\* result or an error, in every interleaving; and the step in which a
\* rebuild() returns leaves the flag set, the index not building
C30_Completion ==
  /\ \A t \in Tasks : (pc[t] # "idle") ~> (pc[t] = "idle")
  /\ [][ \A t \in Tasks :
           (op[t] = "rebuild" /\ pc[t] # "idle" /\ pc'[t] = "idle")
             => initialized' ]_vars

\* a rebuild() has returned, the flag set, while the other caller is still
\* in the build of its own call
C30_Witness ==
  /\ ret.op = "rebuild"
  /\ initialized
  /\ \E u \in Tasks : pc[u] \in {"fetch", "fill"}

====
